---- MODULE Spec2Model ----
(***************************************************************************)
(* Brave Search agent (src/backend/brave_search_agent.py): recovery of a   *)
(* JSON value from the remote runner's free text (_extract_json), the      *)
(* per-record coercion (_sanitize_result) and the public coroutine         *)
(* brave_search.                                                           *)
(*                                                                         *)
(* A Python str is a sequence of one-character strings.  A Python object   *)
(* (a decoded JSON value, or a field of a response) is a tagged record:    *)
(*   [t |-> "none"], [t |-> "bool", b], [t |-> "int", n], [t |-> "str", s],*)
(*   [t |-> "list", items], [t |-> "dict", kv]                             *)
(* where kv is the dict's items in insertion order, each [k, v].           *)
(***************************************************************************)
EXTENDS Integers, Sequences, FiniteSets, TLC

\* ------------------------------------------------------------------------
\* Python objects
\* ------------------------------------------------------------------------

None == [t |-> "none"]

PyBool(b) == [t |-> "bool", b |-> b]

PyInt(n) == [t |-> "int", n |-> n]

PyStrObj(s) == [t |-> "str", s |-> s]

PyList(items) == [t |-> "list", items |-> items]

PyDict(kv) == [t |-> "dict", kv |-> kv]

IsNone(v) == v.t = "none"

IsStr(v) == v.t = "str"

IsListObj(v) == v.t = "list"

IsDictObj(v) == v.t = "dict"

\* bool(v): what `x or y` tests.
Truthy(v) ==
    CASE v.t = "none" -> FALSE
      [] v.t = "bool" -> v.b
      [] v.t = "int"  -> v.n # 0
      [] v.t = "str"  -> Len(v.s) > 0
      [] v.t = "list" -> Len(v.items) > 0
      [] v.t = "dict" -> Len(v.kv) > 0

\* a or b
PyOr(a, b) == IF Truthy(a) THEN a ELSE b

HasKey(d, k) == \E i \in 1..Len(d.kv) : d.kv[i].k = k

\* d.get(k, default)
DictGetDefault(d, k, default) ==
    IF HasKey(d, k)
    THEN d.kv[CHOOSE i \in 1..Len(d.kv) : d.kv[i].k = k].v
    ELSE default

\* d.get(k)
DictGet(d, k) == DictGetDefault(d, k, None)

\* d[k] = v on the item list: a repeated key keeps its place and takes the
\* new value.
DictPut(kv, k, v) ==
    IF \E i \in 1..Len(kv) : kv[i].k = k
    THEN [i \in 1..Len(kv) |-> IF kv[i].k = k THEN [k |-> k, v |-> v] ELSE kv[i]]
    ELSE Append(kv, [k |-> k, v |-> v])

\* ------------------------------------------------------------------------
\* str() and repr()
\* ------------------------------------------------------------------------

DigitChars == <<"0", "1", "2", "3", "4", "5", "6", "7", "8", "9">>

RECURSIVE NatToStr(_)
NatToStr(n) ==
    IF n < 10 THEN <<DigitChars[n + 1]>>
    ELSE NatToStr(n \div 10) \o <<DigitChars[(n % 10) + 1]>>

IntToStr(n) == IF n < 0 THEN <<"-">> \o NatToStr(0 - n) ELSE NatToStr(n)

RECURSIVE PyRepr(_)
RECURSIVE JoinRepr(_, _)
RECURSIVE JoinItems(_, _)
\* ", ".join(repr(x) for x in items[i:])
JoinRepr(items, i) ==
    IF i > Len(items) THEN <<>>
    ELSE PyRepr(items[i])
         \o (IF i < Len(items) THEN <<",", " ">> ELSE <<>>)
         \o JoinRepr(items, i + 1)

\* ", ".join(repr(k) + ": " + repr(v) for k, v in kv[i:])
JoinItems(kv, i) ==
    IF i > Len(kv) THEN <<>>
    ELSE <<"'">> \o kv[i].k \o <<"'", ":", " ">> \o PyRepr(kv[i].v)
         \o (IF i < Len(kv) THEN <<",", " ">> ELSE <<>>)
         \o JoinItems(kv, i + 1)

\* repr(v); the strings of the model hold no quote, backslash or control
\* character, so repr of a str is the str between single quotes.
PyRepr(v) ==
    CASE v.t = "none" -> <<"N", "o", "n", "e">>
      [] v.t = "bool" -> IF v.b THEN <<"T", "r", "u", "e">>
                                ELSE <<"F", "a", "l", "s", "e">>
      [] v.t = "int"  -> IntToStr(v.n)
      [] v.t = "str"  -> <<"'">> \o v.s \o <<"'">>
      [] v.t = "list" -> <<"[">> \o JoinRepr(v.items, 1) \o <<"]">>
      [] v.t = "dict" -> <<"{">> \o JoinItems(v.kv, 1) \o <<"}">>

\* str(v)
PyStr(v) == IF v.t = "str" THEN v ELSE PyStrObj(PyRepr(v))

\* ------------------------------------------------------------------------
\* json.loads (strict), on the texts the model hands it: they hold no
\* backslash, no control character but the line break, and outside a string
\* no '.', no digit followed by e or E and no NaN or Infinity, so a number is
\* NUMBER_RE's integer part.
\* ------------------------------------------------------------------------

\* json.decoder.WHITESPACE and the regex class \s, on the model's alphabet
WS == {" ", "\n"}

Digits == {"0", "1", "2", "3", "4", "5", "6", "7", "8", "9"}

DigitVal(c) == (CHOOSE i \in 1..10 : DigitChars[i] = c) - 1

\* s[i:i+len(w)] == w
HasAt(s, i, w) ==
    /\ i >= 1
    /\ i + Len(w) - 1 <= Len(s)
    /\ \A k \in 1..Len(w) : s[i + k - 1] = w[k]

RECURSIVE SkipWs(_, _)
\* WHITESPACE.match(s, i).end()
SkipWs(s, i) == IF i <= Len(s) /\ s[i] \in WS THEN SkipWs(s, i + 1) ELSE i

Fail == [ok |-> FALSE, val |-> None, pos |-> 0]

Ok(v, p) == [ok |-> TRUE, val |-> v, pos |-> p]

RECURSIVE ScanString(_, _, _)
\* py_scanstring from the character after the opening quote: a raw control
\* character (the newline) is an error, the end of the text too.
ScanString(s, i, acc) ==
    IF i > Len(s) THEN Fail
    ELSE IF s[i] = "\"" THEN Ok(acc, i + 1)
    ELSE IF s[i] = "\n" THEN Fail
    ELSE ScanString(s, i + 1, Append(acc, s[i]))

RECURSIVE ScanDigits(_, _, _)
ScanDigits(s, i, n) ==
    IF i <= Len(s) /\ s[i] \in Digits
    THEN ScanDigits(s, i + 1, 10 * n + DigitVal(s[i]))
    ELSE [n |-> n, pos |-> i]

\* NUMBER_RE's integer part, -?(0|[1-9][0-9]*), from i; the sign is applied
\* by the caller.
ScanInt(s, i) ==
    IF i > Len(s) \/ s[i] \notin Digits THEN Fail
    ELSE IF s[i] = "0" THEN Ok(PyInt(0), i + 1)
    ELSE LET r == ScanDigits(s, i, 0) IN Ok(PyInt(r.n), r.pos)

ScanNumber(s, i) ==
    IF i <= Len(s) /\ s[i] = "-"
    THEN LET r == ScanInt(s, i + 1)
         IN IF r.ok THEN Ok(PyInt(0 - r.val.n), r.pos) ELSE Fail
    ELSE ScanInt(s, i)

RECURSIVE ParseValue(_, _)
RECURSIVE ArrayItems(_, _, _)
RECURSIVE ObjectItems(_, _, _)

\* JSONArray's loop from the start of a value
ArrayItems(s, i, acc) ==
    LET r == ParseValue(s, i) IN
    IF ~r.ok THEN Fail
    ELSE LET j == SkipWs(s, r.pos) IN
         IF j > Len(s) THEN Fail
         ELSE IF s[j] = "]" THEN Ok(PyList(Append(acc, r.val)), j + 1)
         ELSE IF s[j] = "," THEN ArrayItems(s, SkipWs(s, j + 1), Append(acc, r.val))
         ELSE Fail

\* JSONArray from the character after '['
ParseArray(s, i) ==
    LET j == SkipWs(s, i) IN
    IF j <= Len(s) /\ s[j] = "]" THEN Ok(PyList(<<>>), j + 1)
    ELSE ArrayItems(s, j, <<>>)

\* JSONObject's loop from the opening quote of a key
ObjectItems(s, i, acc) ==
    IF i > Len(s) \/ s[i] # "\"" THEN Fail
    ELSE
    LET key == ScanString(s, i + 1, <<>>) IN
    IF ~key.ok THEN Fail
    ELSE LET c == SkipWs(s, key.pos) IN
         IF c > Len(s) \/ s[c] # ":" THEN Fail
         ELSE LET r == ParseValue(s, SkipWs(s, c + 1)) IN
              IF ~r.ok THEN Fail
              ELSE LET j == SkipWs(s, r.pos) IN
                   IF j > Len(s) THEN Fail
                   ELSE IF s[j] = "}"
                        THEN Ok(PyDict(DictPut(acc, key.val, r.val)), j + 1)
                   ELSE IF s[j] = ","
                        THEN ObjectItems(s, SkipWs(s, j + 1),
                                         DictPut(acc, key.val, r.val))
                   ELSE Fail

\* JSONObject from the character after '{'
ParseObject(s, i) ==
    LET j == SkipWs(s, i) IN
    IF j <= Len(s) /\ s[j] = "}" THEN Ok(PyDict(<<>>), j + 1)
    ELSE ObjectItems(s, j, <<>>)

\* scanner.py_make_scanner's _scan_once
ParseValue(s, i) ==
    IF i > Len(s) THEN Fail
    ELSE IF s[i] = "\"" THEN
         LET r == ScanString(s, i + 1, <<>>)
         IN IF r.ok THEN Ok(PyStrObj(r.val), r.pos) ELSE Fail
    ELSE IF s[i] = "{" THEN ParseObject(s, i + 1)
    ELSE IF s[i] = "[" THEN ParseArray(s, i + 1)
    ELSE IF HasAt(s, i, <<"n", "u", "l", "l">>) THEN Ok(None, i + 4)
    ELSE IF HasAt(s, i, <<"t", "r", "u", "e">>) THEN Ok(PyBool(TRUE), i + 4)
    ELSE IF HasAt(s, i, <<"f", "a", "l", "s", "e">>) THEN Ok(PyBool(FALSE), i + 5)
    ELSE ScanNumber(s, i)

\* json.loads(s): [ok, val]; ok = FALSE stands for json.JSONDecodeError.
JsonLoads(s) ==
    LET r == ParseValue(s, SkipWs(s, 1)) IN
    IF r.ok /\ SkipWs(s, r.pos) = Len(s) + 1
    THEN [ok |-> TRUE, val |-> r.val]
    ELSE [ok |-> FALSE, val |-> None]

\* ------------------------------------------------------------------------
\* _extract_json
\* ------------------------------------------------------------------------

RECURSIVE RunStart(_, _)
\* the first index of the whitespace run that ends just before index q
RunStart(s, q) == IF q > 1 /\ s[q - 1] \in WS THEN RunStart(s, q - 1) ELSE q

\* text.strip()
Strip(s) ==
    LET first == SkipWs(s, 1)
    IN IF first > Len(s) THEN <<>>
       ELSE SubSeq(s, first, RunStart(s, Len(s) + 1) - 1)

\* The backquote character (a TLA+ string literal cannot hold it).
BACKTICK == "BQ"

\* the three backquotes of a markdown code fence
FENCE == <<BACKTICK, BACKTICK, BACKTICK>>

JSON_TAG == <<"j", "s", "o", "n">>

\* ^ under re.MULTILINE
AtLineStart(s, p) == p = 1 \/ s[p - 1] = "\n"

\* $ under re.MULTILINE, at the position before index p
AtLineEnd(s, p) == p = Len(s) + 1 \/ s[p] = "\n"

\* s without the characters at the indices in deleted
Without(s, deleted) ==
    LET kept == SelectSeq([i \in 1..Len(s) |-> i], LAMBDA i : i \notin deleted)
    IN [k \in 1..Len(kept) |-> s[kept[k]]]

\* SubLeadingFence without the optional tag: r"^```\s*"
SubLeadingFenceNoTag(s) ==
    LET starts == {p \in 1..Len(s) : /\ s[p] = BACKTICK
                                     /\ AtLineStart(s, p)
                                     /\ HasAt(s, p, FENCE)}
        MatchEnd(p) == SkipWs(s, p + 3)
        deleted == UNION {p..(MatchEnd(p) - 1) : p \in starts}
    IN IF starts = {} THEN s ELSE Without(s, deleted)

\* re.sub(r"^```(?:json)?\s*", "", s, flags=re.MULTILINE): a match starts at
\* every line start that holds a fence and runs over the tag and the
\* whitespace (line breaks included) after it; no match starts inside
\* another, as a match holds no backquote after its first three characters.
SubLeadingFence(s) ==
    LET starts == {p \in 1..Len(s) : /\ s[p] = BACKTICK
                                     /\ AtLineStart(s, p)
                                     /\ HasAt(s, p, FENCE)}
        MatchEnd(p) ==
            SkipWs(s, IF HasAt(s, p + 3, JSON_TAG) THEN p + 7 ELSE p + 3)
        deleted == UNION {p..(MatchEnd(p) - 1) : p \in starts}
    IN IF starts = {} THEN s ELSE Without(s, deleted)

\* re.sub(r"\s*```$", "", s, flags=re.MULTILINE): a match ends with every
\* fence that a line end follows and starts with the whitespace run before
\* that fence (\s* gives nothing back, a backquote being no whitespace).
SubTrailingFence(s) ==
    LET ends == {q \in 1..Len(s) : /\ s[q] = BACKTICK
                                   /\ HasAt(s, q, FENCE)
                                   /\ AtLineEnd(s, q + 3)}
        deleted == UNION {RunStart(s, q)..(q + 2) : q \in ends}
    IN IF ends = {} THEN s ELSE Without(s, deleted)

\* lines 58-59
StripFences(text) ==
    LET a == SubLeadingFence(Strip(text))
    IN SubTrailingFence(Strip(a))

\* s.find(c) as a 1-based index; 0 stands for -1
Find(s, c) ==
    IF \E i \in 1..Len(s) : s[i] = c
    THEN CHOOSE i \in 1..Len(s) : s[i] = c /\ \A j \in 1..(i - 1) : s[j] # c
    ELSE 0

\* s.rfind(c) as a 1-based index; 0 stands for -1
RFind(s, c) ==
    IF \E i \in 1..Len(s) : s[i] = c
    THEN CHOOSE i \in 1..Len(s) : s[i] = c /\ \A j \in (i + 1)..Len(s) : s[j] # c
    ELSE 0

\* line 68
BRACKET_PAIRS == << <<"{", "}">>, <<"[", "]">> >>

RECURSIVE BracketLoopStop(_, _, _)
\* BracketLoop that gives up at the first substring that does not parse
\* (return None in place of continue, line 78)
BracketLoopStop(text, k, calls) ==
    IF k > Len(BRACKET_PAIRS) THEN [value |-> None, calls |-> calls]
    ELSE LET start == Find(text, BRACKET_PAIRS[k][1]) IN
         IF start = 0 THEN BracketLoopStop(text, k + 1, calls)
         ELSE LET end == RFind(text, BRACKET_PAIRS[k][2]) IN
              IF end > start
              THEN LET cand == SubSeq(text, start, end)
                       r == JsonLoads(cand)
                   IN IF r.ok
                      THEN [value |-> r.val, calls |-> Append(calls, cand)]
                      ELSE [value |-> None, calls |-> Append(calls, cand)]
              ELSE BracketLoopStop(text, k + 1, calls)

RECURSIVE BracketLoop(_, _, _)
\* the for loop of lines 68-78 from pair number k; calls is the list of
\* texts handed to json.loads so far
BracketLoop(text, k, calls) ==
    IF k > Len(BRACKET_PAIRS) THEN [value |-> None, calls |-> calls]
    ELSE LET start == Find(text, BRACKET_PAIRS[k][1]) IN
         IF start = 0 THEN BracketLoop(text, k + 1, calls)
         ELSE LET end == RFind(text, BRACKET_PAIRS[k][2]) IN
              IF end > start
              THEN LET cand == SubSeq(text, start, end)
                       r == JsonLoads(cand)
                   IN IF r.ok
                      THEN [value |-> r.val, calls |-> Append(calls, cand)]
                      ELSE BracketLoop(text, k + 1, Append(calls, cand))
              ELSE BracketLoop(text, k + 1, calls)

\* _extract_json(text): the value returned and the json.loads calls made
ExtractJson(text) ==
    LET stripped == StripFences(text)
        r == JsonLoads(stripped)
    IN IF r.ok THEN [value |-> r.val, calls |-> <<stripped>>]
       ELSE BracketLoop(stripped, 1, <<stripped>>)

\* ------------------------------------------------------------------------
\* _sanitize_result
\* ------------------------------------------------------------------------

K_title == <<"t", "i", "t", "l", "e">>

K_url == <<"u", "r", "l">>

K_source == <<"s", "o", "u", "r", "c", "e">>

K_domain == <<"d", "o", "m", "a", "i", "n">>

K_publisher == <<"p", "u", "b", "l", "i", "s", "h", "e", "r">>

K_published_at == <<"p", "u", "b", "l", "i", "s", "h", "e", "d", "_", "a", "t">>

K_publishedAt == <<"p", "u", "b", "l", "i", "s", "h", "e", "d", "A", "t">>

K_date == <<"d", "a", "t", "e">>

K_snippet == <<"s", "n", "i", "p", "p", "e", "t">>

K_description == <<"d", "e", "s", "c", "r", "i", "p", "t", "i", "o", "n">>

K_query == <<"q", "u", "e", "r", "y">>

K_results == <<"r", "e", "s", "u", "l", "t", "s">>

EmptyStr == PyStrObj(<<>>)

\* line 38
EMPTY_RESULT ==
    [title |-> EmptyStr, url |-> EmptyStr, source |-> EmptyStr,
     published_at |-> None, snippet |-> EmptyStr]

\* _sanitize_result(raw), lines 43-49
SanitizeResult(raw) ==
    [title |-> PyStr(PyOr(DictGet(raw, K_title), EmptyStr)),
     url |-> PyStr(PyOr(DictGet(raw, K_url), EmptyStr)),
     source |-> PyStr(PyOr(DictGet(raw, K_source),
                      PyOr(DictGet(raw, K_domain),
                       PyOr(DictGet(raw, K_publisher), EmptyStr)))),
     published_at |-> PyOr(DictGet(raw, K_published_at),
                       PyOr(DictGet(raw, K_publishedAt),
                        PyOr(DictGet(raw, K_date), None))),
     snippet |-> PyStr(PyOr(DictGet(raw, K_snippet),
                       PyOr(DictGet(raw, K_description), EmptyStr)))]

\* ------------------------------------------------------------------------
\* brave_search
\* ------------------------------------------------------------------------

\* line 34
MAX_RESULTS == 10

Min(a, b) == IF a < b THEN a ELSE b

Max(a, b) == IF a > b THEN a ELSE b

\* ClampLimit without the floor of 1: min(limit, MAX_RESULTS)
ClampLimitNoFloor(limit) == Min(limit, MAX_RESULTS)

\* line 113: min(max(1, limit), MAX_RESULTS)
ClampLimit(limit) == Min(Max(1, limit), MAX_RESULTS)

\* lines 115-143: the parts of the prompt that vary
BuildPrompt(query, mode, limit) ==
    [query |-> query, news_instruction |-> (mode = "news"), limit |-> limit]

\* EmptyResponse with the placeholder record in place of no record
EmptyResponsePlaceholder(query) ==
    [query |-> PyStrObj(query), results |-> <<EMPTY_RESULT>>]

\* lines 165, 174 and 193: {"query": query, "results": []}
EmptyResponse(query) == [query |-> PyStrObj(query), results |-> <<>>]

\* lines 168-169
WrapList(parsed, query) ==
    IF IsListObj(parsed)
    THEN PyDict(<< [k |-> K_query, v |-> PyStrObj(query)],
                   [k |-> K_results, v |-> parsed] >>)
    ELSE parsed

\* lines 176-178
RawResults(parsed) ==
    LET raw_results == DictGetDefault(parsed, K_results, PyList(<<>>))
    IN IF IsListObj(raw_results) THEN raw_results.items ELSE <<>>

RECURSIVE SanitizeFrom(_, _)
SanitizeFrom(raw_results, i) ==
    IF i > Len(raw_results) THEN <<>>
    ELSE (IF IsDictObj(raw_results[i])
          THEN <<SanitizeResult(raw_results[i])>> ELSE <<>>)
         \o SanitizeFrom(raw_results, i + 1)

\* s[:n]
SliceTo(s, n) ==
    IF n >= 0 THEN SubSeq(s, 1, Min(n, Len(s)))
    ELSE SubSeq(s, 1, Max(Len(s) + n, 0))

\* SanitizeAndLimit with the limit enforced on the raw elements, before the
\* elements that are not keyed are dropped
LimitThenSanitize(raw_results, limit) ==
    SanitizeFrom(SliceTo(raw_results, limit), 1)

\* lines 181-184: sanitize the keyed elements, then enforce the limit
SanitizeAndLimit(raw_results, limit) ==
    SliceTo(SanitizeFrom(raw_results, 1), limit)

\* line 187: parsed.get("query", query)
ResponseQuery(parsed, query) == DictGetDefault(parsed, K_query, PyStrObj(query))

\* lines 163-189, from the value _extract_json returned
BuildResponse(extracted, query, limit) ==
    IF IsNone(extracted) THEN EmptyResponse(query)
    ELSE LET parsed == WrapList(extracted, query) IN
         IF ~IsDictObj(parsed) THEN EmptyResponse(query)
         ELSE [query |-> ResponseQuery(parsed, query),
               results |-> SanitizeAndLimit(RawResults(parsed), limit)]

\* ------------------------------------------------------------------------
\* The remote runner's outputs (result.final_output, lines 151-157)
\* ------------------------------------------------------------------------

RECURSIVE JsonDumps(_)
RECURSIVE DumpItems(_, _)
RECURSIVE DumpMembers(_, _)
DumpItems(items, i) ==
    IF i > Len(items) THEN <<>>
    ELSE JsonDumps(items[i]) \o (IF i < Len(items) THEN <<",">> ELSE <<>>)
         \o DumpItems(items, i + 1)

DumpMembers(kv, i) ==
    IF i > Len(kv) THEN <<>>
    ELSE <<"\"">> \o kv[i].k \o <<"\"", ":">> \o JsonDumps(kv[i].v)
         \o (IF i < Len(kv) THEN <<",">> ELSE <<>>)
         \o DumpMembers(kv, i + 1)

\* The JSON text a remote model writes for a value.
JsonDumps(v) ==
    CASE v.t = "none" -> <<"n", "u", "l", "l">>
      [] v.t = "bool" -> IF v.b THEN <<"t", "r", "u", "e">>
                                ELSE <<"f", "a", "l", "s", "e">>
      [] v.t = "int"  -> IntToStr(v.n)
      [] v.t = "str"  -> <<"\"">> \o v.s \o <<"\"">>
      [] v.t = "list" -> <<"[">> \o DumpItems(v.items, 1) \o <<"]">>
      [] v.t = "dict" -> <<"{">> \o DumpMembers(v.kv, 1) \o <<"}">>

\* Elements a remote results array is made of: records with the field names
\* _sanitize_result reads, and elements that are not keyed structures.
ElemPool ==
    << PyDict(<< [k |-> K_title, v |-> PyStrObj(<<"X">>)],
              [k |-> K_domain, v |-> PyStrObj(<<"e", "x", "a", "m", "p", "l", "e", ".", "c", "o", "m">>)] >>),
       PyStrObj(<<"s">>),
       PyDict(<< [k |-> K_url, v |-> PyStrObj(<<"a">>)] >>),
       PyList(<<PyDict(<< [k |-> K_url, v |-> PyStrObj(<<"z">>)] >>)>>),
       PyDict(<< [k |-> K_published_at, v |-> PyInt(5)] >>),
       PyDict(<< [k |-> K_source, v |-> PyStrObj(<<>>)],
              [k |-> K_domain, v |-> None],
              [k |-> K_publisher, v |-> PyStrObj(<<"p">>)],
              [k |-> K_snippet, v |-> None],
              [k |-> K_description, v |-> PyStrObj(<<"d">>)] >>),
       PyDict(<< [k |-> K_url, v |-> PyStrObj(<<"b">>)],
              [k |-> K_published_at, v |-> PyStrObj(<<"2", "0", "2", "4">>)] >>),
       PyDict(<< [k |-> K_title, v |-> PyInt(7)],
              [k |-> K_publishedAt, v |-> PyStrObj(<<"d", "1">>)],
              [k |-> K_date, v |-> PyStrObj(<<"d", "2">>)] >>),
       PyDict(<< [k |-> K_date, v |-> PyBool(TRUE)],
              [k |-> K_snippet, v |-> PyList(<<PyInt(1), PyStrObj(<<"a">>)>>)] >>),
       PyDict(<<>>),
       PyDict(<< [k |-> K_url, v |-> PyStrObj(<<"c">>)],
              [k |-> K_source, v |-> PyStrObj(<<"s">>)],
              [k |-> K_domain, v |-> PyStrObj(<<"d">>)] >>),
       PyDict(<< [k |-> K_url, v |-> PyInt(0)],
              [k |-> K_title, v |-> PyBool(FALSE)],
              [k |-> K_description, v |-> PyDict(<< [k |-> <<"a">>, v |-> PyInt(1)] >>)] >>),
       PyDict(<< [k |-> K_url, v |-> PyStrObj(<<"e">>)],
              [k |-> K_date, v |-> PyStrObj(<<"d">>)] >>) >>

\* How many elements a remote results array holds at most.
MaxListLen == 15

\* Where in ElemPool a remote results array may start.
MaxStart == 3

\* The array of n elements that starts at ElemPool[a] and goes round the pool.
ResultList(a, n) ==
    [i \in 1..n |-> ElemPool[((a + i - 2) % Len(ElemPool)) + 1]]

ResultLists == {ResultList(a, n) : a \in 1..MaxStart, n \in 0..MaxListLen}

Absent == [t |-> "absent"]

\* {"query": q, "results": r}, a member left out when it is Absent
TopObject(q, r) ==
    PyDict((IF q = Absent THEN <<>> ELSE << [k |-> K_query, v |-> q] >>)
           \o (IF r = Absent THEN <<>> ELSE << [k |-> K_results, v |-> r] >>))

OtherQuery == PyStrObj(<<"o", "t", "h", "e", "r">>)

QueryFields ==
    {Absent, None, EmptyStr, OtherQuery, PyInt(0), PyInt(5), PyBool(FALSE),
     PyList(<<>>)}

ResultsFields ==
    {Absent, None, PyStrObj(<<"s">>), PyInt(1), PyDict(<<>>),
     PyList(ResultList(1, 3))}

\* a bare array, and values that are no array and no object
BareValues ==
    {PyList(l) : l \in ResultLists}
    \cup {PyInt(1), PyInt(0), PyStrObj(<<"s">>), PyBool(TRUE), None}

\* objects, with and without the two members brave_search reads
ObjectValues ==
    {TopObject(OtherQuery, PyList(l)) : l \in ResultLists}
    \cup {TopObject(q, r) : q \in QueryFields, r \in ResultsFields}

\* How the remote model presents its JSON: as asked, in a markdown fence, or
\* between two pieces of commentary.
Presentations == {"bare", "fenced", "prose"}

Present(how, t) ==
    CASE how = "bare" -> t
      [] how = "fenced" -> FENCE \o JSON_TAG \o <<"\n">> \o t \o <<"\n">> \o FENCE
      [] how = "prose" -> <<"O", "K", ":", " ">> \o t \o <<" ", "b", "y", "e">>

JunkTexts ==
    { <<>>, <<" ">>, <<"n", "o", "t", " ", "j", "s", "o", "n", " ", "a", "t", " ", "a", "l", "l">>,
      <<"{", "\"", "r", "e", "s", "u", "l", "t", "s", "\"", ":", "[">> }

RemoteTexts ==
    {Present(how, JsonDumps(v)) : how \in Presentations, v \in BareValues}
    \cup {JsonDumps(v) : v \in ObjectValues}
    \cup {Present(how, JsonDumps(TopObject(q, PyList(ResultList(1, 3))))) :
            how \in Presentations, q \in {Absent, None, OtherQuery}}
    \cup JunkTexts

\* result.final_output: a str, or None
FinalOutputs == {None} \cup {PyStrObj(t) : t \in RemoteTexts}

\* ------------------------------------------------------------------------
\* The callers' inputs
\* ------------------------------------------------------------------------

Queries == { <<"A", "M", "Z", "N">>, <<"g", "o", "l", "d">> }

Modes == {"web", "news"}

\* How far below 1 and above MAX_RESULTS the limit argument goes.
LimitSlack == 2

Limits == (1 - LimitSlack)..(MAX_RESULTS + LimitSlack)

\* ------------------------------------------------------------------------
\* One call of brave_search
\* ------------------------------------------------------------------------

VARIABLES
    pc,          \* "start", "awaiting" (suspended in runner.run), "returned"
    query,       \* the query argument
    mode,        \* the mode argument
    limit_arg,   \* the limit argument
    limit,       \* the local limit: the argument until line 113 rebinds it
    prompt,      \* the prompt handed to the runner
    runs,        \* how many times runner.run was invoked
    runner,      \* "idle", "running", "returned", "threw", "not_run"
    raw_output,  \* line 157
    parsed,      \* what _extract_json returned, line 161
    loads_calls, \* the texts _extract_json handed to json.loads
    response,    \* the dict returned to the caller
    ex_pc,       \* a direct call of _extract_json: "idle", "call", "done"
    ex_fence,    \* how the text of that call is fenced
    ex_base,     \* the text before fencing
    ex_text,     \* the text handed to _extract_json
    ex_out,      \* _extract_json(ex_text)
    ex_plain     \* _extract_json(ex_base)

search_vars ==
    <<pc, query, mode, limit_arg, limit, prompt, runs, runner, raw_output,
      parsed, loads_calls, response>>

extract_vars == <<ex_pc, ex_fence, ex_base, ex_text, ex_out, ex_plain>>

vars == <<search_vars, extract_vars>>

NoPrompt == [query |-> <<>>, news_instruction |-> FALSE, limit |-> 0]

NoResponse == [pending |-> TRUE]

NoExtract == [value |-> None, calls |-> <<>>]

ExtractIdle ==
    /\ ex_pc = "idle"
    /\ ex_fence = "none"
    /\ ex_base = <<>>
    /\ ex_text = <<>>
    /\ ex_out = NoExtract
    /\ ex_plain = NoExtract

Init ==
    /\ pc = "start"
    /\ query \in Queries
    /\ mode \in Modes
    /\ limit_arg \in Limits
    /\ limit = limit_arg
    /\ prompt = NoPrompt
    /\ runs = 0
    /\ runner = "idle"
    /\ raw_output = <<>>
    /\ parsed = None
    /\ loads_calls = <<>>
    /\ response = NoResponse
    /\ ExtractIdle

\* Lines 113-151: clamp the limit, build the prompt, construct the client and
\* the runner, and suspend in runner.run.
Call ==
    /\ pc = "start"
    /\ limit' = ClampLimit(limit_arg)
    /\ prompt' = BuildPrompt(query, mode, limit')
    /\ runs' = runs + 1
    /\ runner' = "running"
    /\ pc' = "awaiting"
    /\ UNCHANGED <<query, mode, limit_arg, raw_output, parsed, loads_calls,
                   response, extract_vars>>

\* Lines 113-147 and 191-193: constructing the client or the runner throws
\* before runner.run is reached.
ClientThrows ==
    /\ pc = "start"
    /\ limit' = ClampLimit(limit_arg)
    /\ prompt' = BuildPrompt(query, mode, limit')
    /\ runner' = "not_run"
    /\ response' = EmptyResponse(query)
    /\ pc' = "returned"
    /\ UNCHANGED <<query, mode, limit_arg, runs, raw_output, parsed,
                   loads_calls, extract_vars>>

\* Lines 157-189: runner.run returns; the rest of the coroutine runs to its
\* return.
RunnerReturns ==
    /\ pc = "awaiting"
    /\ \E final_output \in FinalOutputs :
         LET out == PyOr(final_output, EmptyStr).s
             ex == ExtractJson(out)
         IN /\ raw_output' = out
            /\ parsed' = ex.value
            /\ loads_calls' = ex.calls
            /\ response' = BuildResponse(ex.value, query, limit)
    /\ runner' = "returned"
    /\ pc' = "returned"
    /\ UNCHANGED <<query, mode, limit_arg, limit, prompt, runs, extract_vars>>

\* RunnerThrows with a retry: the handler invokes runner.run once more
RunnerThrowsRetry ==
    /\ pc = "awaiting"
    /\ runs < 2
    /\ runs' = runs + 1
    /\ UNCHANGED <<pc, runner, query, mode, limit_arg, limit, prompt,
                   raw_output, parsed, loads_calls, response, extract_vars>>

\* Lines 191-193: runner.run throws; the handler logs and returns.
RunnerThrows ==
    /\ pc = "awaiting"
    /\ runner' = "threw"
    /\ response' = EmptyResponse(query)
    /\ pc' = "returned"
    /\ UNCHANGED <<query, mode, limit_arg, limit, prompt, runs, raw_output,
                   parsed, loads_calls, extract_vars>>

Next == Call \/ ClientThrows \/ RunnerReturns \/ RunnerThrows

Spec == Init /\ [][Next]_vars

\* ------------------------------------------------------------------------
\* _extract_json called on its own
\* ------------------------------------------------------------------------

\* The characters the short texts are made of.
ExtractAlphabet == {"{", "}", "[", "]", "1", ",", "x"}

\* The longest text made of every combination of ExtractAlphabet.
MaxTextLen == 4

ShortTexts == UNION {[1..n -> ExtractAlphabet] : n \in 0..MaxTextLen}

SampleTexts ==
    { <<"n", "u", "l", "l">>,
      <<"t", "r", "u", "e">>,
      <<"f", "a", "l", "s", "e">>,
      <<"-", "1">>,
      <<"0">>,
      <<"\"", "a", "\"">>,
      <<"{", "\"", "a", "\"", ":", "1", "}">>,
      <<"{", "\"", "a", "\"", ":", "[", "1", ",", "n", "u", "l", "l", "]", "}">>,
      <<" ", "[", "1", "]", " ">>,
      <<"[", "1", "]", "\n">>,
      <<"\"", BACKTICK, BACKTICK, BACKTICK, "\"">>,
      <<"[", "\"", BACKTICK, BACKTICK, BACKTICK, "\"", "]">>,
      <<"{", "\"", "a", "\"", ":", "\"", BACKTICK, BACKTICK, BACKTICK, "\"", ",", "\"", "a", "\"", ":", "2", "}">>,
      <<"O", "K", ":", " ", "[", "1", "]", " ", "b", "y", "e">>,
      <<"O", "K", ":", " ", "{", "\"", "a", "\"", ":", "1", "}", " ", "b", "y", "e">>,
      <<"{", "\"", "a", "\"", ":", "1", "}", " ", "a", "n", "d", " ", "[", "2", "]">>,
      <<"[", "2", "]", " ", "a", "n", "d", " ", "{", "\"", "a", "\"", ":", "1", "}">>,
      <<"{", "\"", "a", "\"", ":", "1", "}", " ", "{", "\"", "b", "\"", ":", "2", "}">>,
      <<"[", "1", "]", " ", "[", "2", "]">>,
      <<"j", "s", "o", "n">>,
      <<BACKTICK, BACKTICK, BACKTICK>>,
      <<BACKTICK, BACKTICK, BACKTICK, " ", "j", "s", "o", "n", "\n", "1">> }

ExtractTexts == ShortTexts \cup SampleTexts

FenceKinds == {"none", "json", "plain", "json_tight", "plain_tight"}

\* t in a markdown code fence
Fenced(kind, t) ==
    CASE kind = "none" -> t
      [] kind = "json" -> FENCE \o JSON_TAG \o <<"\n">> \o t \o <<"\n">> \o FENCE
      [] kind = "plain" -> FENCE \o <<"\n">> \o t \o <<"\n">> \o FENCE
      [] kind = "json_tight" -> FENCE \o JSON_TAG \o t \o FENCE
      [] kind = "plain_tight" -> FENCE \o t \o FENCE

SearchIdle ==
    /\ pc = "idle"
    /\ query = <<>>
    /\ mode = "web"
    /\ limit_arg = 0
    /\ limit = 0
    /\ prompt = NoPrompt
    /\ runs = 0
    /\ runner = "idle"
    /\ raw_output = <<>>
    /\ parsed = None
    /\ loads_calls = <<>>
    /\ response = NoResponse

InitExtract ==
    /\ SearchIdle
    /\ ex_pc = "call"
    /\ ex_fence \in FenceKinds
    /\ ex_base \in ExtractTexts
    /\ ex_text = Fenced(ex_fence, ex_base)
    /\ ex_out = NoExtract
    /\ ex_plain = NoExtract

\* _extract_json on the text as given and on the text before fencing
ExtractCall ==
    /\ ex_pc = "call"
    /\ ex_out' = ExtractJson(ex_text)
    /\ ex_plain' = ExtractJson(ex_base)
    /\ ex_pc' = "done"
    /\ UNCHANGED <<ex_fence, ex_base, ex_text, search_vars>>

NextExtract == ExtractCall

SpecExtract == InitExtract /\ [][NextExtract]_vars

\* ------------------------------------------------------------------------
\* The claims
\* ------------------------------------------------------------------------

ResultFields == {"title", "url", "source", "published_at", "snippet"}

\* a result object of the response schema
SchemaConformant(r) ==
    /\ DOMAIN r = ResultFields
    /\ IsStr(r.title)
    /\ IsStr(r.url)
    /\ IsStr(r.source)
    /\ IsStr(r.snippet)
    /\ r.published_at.t \in {"str", "none"}

\* the results array brave_search reads from what _extract_json returned
RecoveredResults ==
    IF IsListObj(parsed) THEN parsed.items
    ELSE IF IsDictObj(parsed) THEN RawResults(parsed)
    ELSE <<>>

KeyedResults == SelectSeq(RecoveredResults, IsDictObj)

Finished == pc = "returned" /\ runner = "returned"

\* C1: brave_search never raises; whatever the runner does, the call ends
\* by returning a response with exactly the keys query and results, and
\* every entry of results is a schema-conformant result object.
C1_NeverRaisesValidResponse ==
    /\ pc \in {"start", "awaiting", "returned"}
    /\ pc = "returned" =>
         /\ DOMAIN response = {"query", "results"}
         /\ \A i \in 1..Len(response.results) :
              SchemaConformant(response.results[i])

\* C2: _sanitize_result gives, for every keyed record whatever the types of
\* its values, exactly the five fields, title, url, source and snippet
\* strings, and published_at a string or null.
C2_SanitizedSchema ==
    Finished =>
      \A i \in 1..Len(KeyedResults) :
        SchemaConformant(SanitizeResult(KeyedResults[i]))

C3_Clamp(n) == IF n < 1 THEN 1 ELSE IF n > 10 THEN 10 ELSE n

\* C3: for every limit argument the effective limit is clamp(limit, 1, 10),
\* and the response never holds more results than that.
C3_EffectiveLimit ==
    /\ pc \in {"awaiting", "returned"} =>
         /\ limit = C3_Clamp(limit_arg)
         /\ prompt.limit = C3_Clamp(limit_arg)
    /\ pc = "returned" => Len(response.results) <= C3_Clamp(limit_arg)

\* a limit argument above 10, more than 10 keyed records, 10 results
C3_Witness ==
    /\ Finished
    /\ limit_arg > 10
    /\ Len(KeyedResults) > 10
    /\ Len(response.results) = 10

\* C4: the response's query is the recovered object's own query when that
\* member is present and truthy, and the query argument otherwise.
C4_QueryFallback ==
    Finished /\ (IsDictObj(parsed) \/ IsListObj(parsed)) =>
      response.query =
        (IF IsDictObj(parsed) /\ HasKey(parsed, K_query)
                              /\ Truthy(DictGet(parsed, K_query))
         THEN DictGet(parsed, K_query)
         ELSE PyStrObj(query))

\* C5: the runner is invoked at most once in a call; when that invocation
\* throws, the call has returned {query: the query argument, results: []}
\* with no second invocation.
C5_SingleInvocationNoRetry ==
    /\ runs <= 1
    /\ runner = "threw" =>
         /\ runs = 1
         /\ pc = "returned"
         /\ response = [query |-> PyStrObj(query), results |-> <<>>]

C5_Witness == runner = "threw" /\ pc = "returned" /\ runs = 1

\* C6: when the output yields no recoverable JSON value, or a value that is
\* a number, a string or a boolean, the response is exactly
\* {query: the query argument, results: []}.
C6_UnrecoverableGivesEmpty ==
    Finished /\ parsed.t \in {"none", "int", "str", "bool"} =>
      response = [query |-> PyStrObj(query), results |-> <<>>]

\* the output "not json at all" has been answered
C6_Witness ==
    /\ Finished
    /\ raw_output = <<"n", "o", "t", " ", "j", "s", "o", "n", " ", "a", "t", " ", "a", "l", "l">>
    /\ IsNone(parsed)
    /\ response.results = <<>>

\* C7: for every JSON text t, _extract_json of t in a markdown code fence,
\* tagged json or plain, yields the value _extract_json yields for t.
C7_FenceTransparent ==
    ex_pc = "done" /\ ex_fence # "none" /\ JsonLoads(ex_base).ok =>
      ex_out.value = ex_plain.value

\* a JSON array in a fence tagged json has been recovered
C7_Witness ==
    /\ ex_pc = "done"
    /\ ex_fence = "json"
    /\ JsonLoads(ex_base).ok
    /\ IsListObj(ex_out.value)
    /\ Len(ex_out.value.items) > 0

\* the substring from the first open to the last close, when the last close
\* is after the first open: a sequence of one text, or of none
C8_Span(s, open, close) ==
    LET opens == {i \in 1..Len(s) : s[i] = open}
        closes == {j \in 1..Len(s) : s[j] = close}
    IN IF opens = {} \/ closes = {} THEN <<>>
       ELSE LET first == CHOOSE i \in opens : \A k \in opens : i <= k
                last == CHOOSE j \in closes : \A k \in closes : k <= j
            IN IF last > first THEN <<SubSeq(s, first, last)>> ELSE <<>>

C8_Parses(c) == c # <<>> /\ JsonLoads(c[1]).ok

\* the attempts of the claim, in its order, and their outcome
C8_Expected(s) ==
    LET direct == JsonLoads(s)
        obj == C8_Span(s, "{", "}")
        arr == C8_Span(s, "[", "]")
    IN [calls |-> IF direct.ok THEN <<s>>
                  ELSE IF C8_Parses(obj) THEN <<s>> \o obj
                  ELSE <<s>> \o obj \o arr,
        value |-> IF direct.ok THEN direct.val
                  ELSE IF C8_Parses(obj) THEN JsonLoads(obj[1]).val
                  ELSE IF C8_Parses(arr) THEN JsonLoads(arr[1]).val
                  ELSE None,
        all_fail |-> ~direct.ok /\ ~C8_Parses(obj) /\ ~C8_Parses(arr),
        direct_null |-> direct.ok /\ IsNone(direct.val)]

\* C8 as stated: _extract_json tries the fence-stripped text, then first '{'
\* to last '}', then first '[' to last ']', each span only when its close is
\* after its open; the first parse that succeeds wins, a failed or skipped
\* '{' attempt does not stop the '[' attempt, and the result is none exactly
\* when all attempts fail.
C8_OrderedAttemptsNoneIffAllFail ==
    ex_pc = "done" =>
      LET e == C8_Expected(StripFences(ex_text))
      IN /\ ex_out.calls = e.calls
         /\ ex_out.value = e.value
         /\ IsNone(ex_out.value) <=> e.all_fail

\* C8 as amended: the same attempts in the same order, and the result is
\* none exactly when all attempts fail or the fence-stripped text is the
\* JSON text null.
C8_OrderedAttempts ==
    ex_pc = "done" =>
      LET e == C8_Expected(StripFences(ex_text))
      IN /\ ex_out.calls = e.calls
         /\ ex_out.value = e.value
         /\ IsNone(ex_out.value) <=> (e.all_fail \/ e.direct_null)

\* the direct parse and the '{' attempt failed and the '[' attempt won
C8_Witness ==
    /\ ex_pc = "done"
    /\ Len(ex_out.calls) = 3
    /\ IsListObj(ex_out.value)

\* C9: the results are the sanitized forms of the first min(limit, k) keyed
\* elements of the recovered sequence, in their order, k being the number
\* of keyed elements: elements that are not keyed are dropped first and
\* take no slot of the limit.
C9_FilterSanitizeTruncate ==
    Finished /\ (IsDictObj(parsed) \/ IsListObj(parsed)) =>
      /\ Len(response.results) = Min(limit, Len(KeyedResults))
      /\ \A i \in 1..Len(response.results) :
           response.results[i] = SanitizeResult(KeyedResults[i])

\* an element that is not keyed stands among the first `limit` elements and
\* more than `limit` keyed elements follow
C9_Witness ==
    /\ Finished
    /\ Len(KeyedResults) > limit
    /\ Len(response.results) = limit
    /\ \E i \in 1..limit : ~IsDictObj(RecoveredResults[i])

\* A candidate the field cannot be read from: absent or null, or of a type
\* the field cannot take.  title, url, source and snippet take the text of
\* any value that is not empty (str() of it); published_at, a string or
\* null in the schema, takes a string only.
C10_Unusable(raw, k, text_field) ==
    LET v == DictGet(raw, k)
    IN IF text_field THEN ~Truthy(v) ELSE ~(IsStr(v) /\ Truthy(v))

\* the first candidate, absent or null ones skipped, is a non-empty string
C10_First(raw, ks, out) ==
    \A i \in 1..Len(ks) :
      (/\ IsStr(DictGet(raw, ks[i]))
       /\ Truthy(DictGet(raw, ks[i]))
       /\ \A j \in 1..(i - 1) : IsNone(DictGet(raw, ks[j])))
      => out = DictGet(raw, ks[i])

C10_Field(raw, ks, out, default, text_field) ==
    /\ C10_First(raw, ks, out)
    /\ (\A i \in 1..Len(ks) : C10_Unusable(raw, ks[i], text_field))
         => out = default

C10_Example ==
    PyDict(<< [k |-> K_title, v |-> PyStrObj(<<"X">>)],
              [k |-> K_domain, v |-> PyStrObj(<<"e", "x", "a", "m", "p", "l", "e", ".", "c", "o", "m">>)] >>)

\* C10: _sanitize_result reads source from source, else domain, else
\* publisher; published_at from published_at, else publishedAt, else date;
\* snippet from snippet, else description; title and url from their own
\* name; a field whose candidates are all absent, null or of unusable type
\* is the schema default; {"title": "X", "domain": "example.com"} gives
\* {title: "X", url: "", source: "example.com", published_at: null,
\* snippet: ""}.
C10_PriorityAndDefaults ==
    Finished =>
      \A i \in 1..Len(KeyedResults) :
        LET raw == KeyedResults[i]
            out == SanitizeResult(raw)
        IN /\ C10_Field(raw, <<K_title>>, out.title, EmptyStr, TRUE)
           /\ C10_Field(raw, <<K_url>>, out.url, EmptyStr, TRUE)
           /\ C10_Field(raw, <<K_source, K_domain, K_publisher>>,
                        out.source, EmptyStr, TRUE)
           /\ C10_Field(raw, <<K_published_at, K_publishedAt, K_date>>,
                        out.published_at, None, FALSE)
           /\ C10_Field(raw, <<K_snippet, K_description>>, out.snippet,
                        EmptyStr, TRUE)
           /\ raw = C10_Example =>
                out = [title |-> PyStrObj(<<"X">>), url |-> EmptyStr,
                       source |-> PyStrObj(<<"e", "x", "a", "m", "p", "l", "e", ".", "c", "o", "m">>),
                       published_at |-> None, snippet |-> EmptyStr]
====
